---- MODULE Spec2Model ----
(***************************************************************************)
(* Model of bin/convert_from_xsede.py: the Router that fetches the XSEDE   *)
(* outages feed, merges the per-resource records of one outage and        *)
(* reconciles the News / News_Associations tables with the merged batch.  *)
(*                                                                         *)
(* Strings that the code concatenates or tests with startswith are        *)
(* sequences of characters, so that '{}{}'.format and startswith are      *)
(* modelled by what they do.  Opaque strings (Subject, Content, ...) are  *)
(* TLA+ strings.                                                          *)
(***************************************************************************)
EXTENDS Naturals, Integers, Sequences, FiniteSets, TLC

VARIABLES
    news,         \* News table: URN -> row, domain = the URNs stored
    assoc,        \* News_Associations table: <<URN, type, id>> -> number of rows
    cur,          \* self.cur: the URNs of the snapshot
    cur_assoc,    \* self.cur_assoc: the KEYs of the snapshot
    new,          \* self.new: the URNs upserted in the pass
    new_assoc,    \* self.new_assoc: the KEYs observed in the pass
    SOURCE_DATA,  \* the object returned by Read_SOURCE (None or a list), as the pass left it
    fetched,      \* the object returned by Read_SOURCE, as it was fetched
    merged_obj,   \* merged_obj: <<URN, index into SOURCE_DATA>> in insertion order
    STATS,        \* self.STATS
    rc,           \* what Warehouse_XSEDE_News gave: "none", "True", "False" or the exception raised
    ops,          \* the persistence operations the pass of this cycle committed
    failed,       \* which kind of persistence call raised in the pass of this cycle
    news0,        \* the News table when this cycle started
    assoc0,       \* the News_Associations table when this cycle started
    daemonaction, \* self.args.daemonaction
    current_sleep,\* the argument of the last sleep()
    hour,         \* datetime.now(Central_TZ).hour as smart_sleep read it
    pc            \* position in Run / __main__

vars == <<news, assoc, cur, cur_assoc, new, new_assoc, SOURCE_DATA, fetched, merged_obj,
          STATS, rc, ops, failed, news0, assoc0, daemonaction, current_sleep, hour, pc>>

----------------------------------------------------------------------------
(* Bounds of the model *)

\* longest batch given to the merge loop alone
MaxBatch == 3
\* longest batch a fetch returns in the scheduler model
MaxFeed == 2

----------------------------------------------------------------------------
(* Configuration values and the data the feed is drawn from *)

None == "None"

NEWSURNPREFIX == <<"n", ":">>
INPUTURNPREFIX == <<"x", ":">>
AFFILIATION == "access-ci.org"
PUBLISHER == "publisher"

SourceIDs == { <<"x", ":", "1">>, <<"a", ":", "1">> }
OutageIDs == { <<"A">>, <<"B">> }
ResourceIDs == { <<"r1">>, <<"r2">> }
PayloadPartial ==
    [OutageType |-> "Partial", Subject |-> "s1", Content |-> "c1",
     OutageStart |-> "2023-01-01", OutageEnd |-> "2023-01-02"]
PayloadFull ==
    [OutageType |-> "Full", Subject |-> "s2", Content |-> "c2",
     OutageStart |-> "2023-02-01", OutageEnd |-> "2023-02-02"]
Payloads == { PayloadPartial, PayloadFull }

\* one decoded feed record (a dict of the JSON list)
Record(id, oid, res, p) ==
    [ID |-> id, OutageID |-> oid, ResourceID |-> res,
     OutageType |-> p.OutageType, Subject |-> p.Subject, Content |-> p.Content,
     OutageStart |-> p.OutageStart, OutageEnd |-> p.OutageEnd]

Records ==
    { Record(id, oid, res, p) : id \in SourceIDs, oid \in OutageIDs,
                                res \in ResourceIDs, p \in Payloads }

SeqsUpTo(S, n) == UNION { [1..k -> S] : k \in 0..n }

\* the records the feed of the scheduler model is made of: three legacy records
\* and one whose ID is of another namespace
FeedRecords ==
    { Record(<<"x", ":", "1">>, <<"A">>, <<"r1">>, PayloadPartial),
      Record(<<"x", ":", "1">>, <<"A">>, <<"r2">>, PayloadFull),
      Record(<<"x", ":", "1">>, <<"B">>, <<"r1">>, PayloadPartial) }
NewRecord == Record(<<"a", ":", "1">>, <<"A">>, <<"r1">>, PayloadPartial)

\* the non-empty lists a fetch returns in the scheduler model
Feeds ==
    (SeqsUpTo(FeedRecords, MaxFeed) \ {<<>>})
    \cup { <<NewRecord>>,
           <<NewRecord, Record(<<"x", ":", "1">>, <<"B">>, <<"r1">>, PayloadPartial)>> }

\* what Read_SOURCE returns: None, or the decoded JSON list
NoData == [none |-> TRUE, list |-> <<>>]
Data(l) == [none |-> FALSE, list |-> l]

\* Python truth value of SOURCE_DATA in `if SOURCE_DATA:`
Truthy(d) == ~d.none /\ d.list # <<>>

----------------------------------------------------------------------------
(* String helpers *)

StartsWith(s, p) == Len(s) >= Len(p) /\ SubSeq(s, 1, Len(p)) = p

\* '{}{}'.format(self.NEWSURNPREFIX, p_res['OutageID'])
BuildURN(oid) == NEWSURNPREFIX \o oid

\* '{}->{}/{}'.format(URN, assoc_type, assoc_id), also str(News_Associations item)
AssocKey(URN, assoc_type, assoc_id) == URN \o <<"->">> \o <<assoc_type>> \o <<"/">> \o assoc_id

----------------------------------------------------------------------------
(* The merge loop.  merged_obj[URN] = p_res aliases the batch element, so *)
(* the state of the loop is the (mutated) batch and, per URN in insertion *)
(* order, the index of the aliased element.                               *)

HasURN(m, URN) == \E i \in 1..Len(m) : m[i][1] = URN

IndexOfURN(m, URN) == CHOOSE i \in 1..Len(m) : m[i][1] = URN

\* the filter of line 296 with the test dropped
EligibleAlways(p_res) == TRUE

\* line 296: p_res['ID'].startswith(self.INPUTURNPREFIX)
Eligible(p_res) == StartsWith(p_res["ID"], INPUTURNPREFIX)

\* merged_obj[URN].pop('ResourceID', None); merged_obj[URN]['AffectedInfrastructure'] = []
InitGroup(p_res) ==
    [k \in (DOMAIN p_res \ {"ResourceID"}) \cup {"AffectedInfrastructure"} |->
        IF k = "AffectedInfrastructure" THEN <<>> ELSE p_res[k]]

\* the append of line 304 done only for a resource not yet in the list
AppendResourceOnce(p_res, RESOURCE) ==
    IF \E k \in 1..Len(p_res["AffectedInfrastructure"]) :
          p_res["AffectedInfrastructure"][k] = RESOURCE
    THEN p_res
    ELSE [p_res EXCEPT !["AffectedInfrastructure"] = Append(@, RESOURCE)]

\* merged_obj[URN]['AffectedInfrastructure'].append(RESOURCE)
AppendResource(p_res, RESOURCE) ==
    [p_res EXCEPT !["AffectedInfrastructure"] = Append(@, RESOURCE)]

\* line 300 with the test dropped: every record of a group takes the group over
IsNewGroupAlways(m, URN) == TRUE

\* line 300: URN not in merged_obj
IsNewGroup(m, URN) == ~HasURN(m, URN)

\* merged_obj[URN] = p_res: a new key goes to the end, a key already there keeps
\* its place and is bound to the new object
Bind(m, URN, i) ==
    IF HasURN(m, URN) THEN [m EXCEPT ![IndexOfURN(m, URN)] = <<URN, i>>]
    ELSE Append(m, <<URN, i>>)

\* one iteration of `for p_res in input_obj`, on element i
MergeOne(st, i) ==
    LET p_res == st.obj[i] IN
    IF st.status # "ok" THEN st
    ELSE IF ~Eligible(p_res) THEN st
    ELSE IF "ResourceID" \notin DOMAIN p_res THEN [st EXCEPT !.status = "KeyError"]
    ELSE
      LET URN == BuildURN(p_res["OutageID"])
          RESOURCE == p_res["ResourceID"]
          isNew == IsNewGroup(st.merged, URN)
          merged1 == IF isNew THEN Bind(st.merged, URN, i) ELSE st.merged
          obj1 == IF isNew THEN [st.obj EXCEPT ![i] = InitGroup(p_res)] ELSE st.obj
          j == merged1[IndexOfURN(merged1, URN)][2]
      IN [st EXCEPT !.merged = merged1,
                    !.obj = [obj1 EXCEPT ![j] = AppendResource(obj1[j], RESOURCE)]]

RECURSIVE MergeFrom(_, _)
MergeFrom(st, i) ==
    IF i > Len(st.obj) THEN st ELSE MergeFrom(MergeOne(st, i), i + 1)

\* the whole merge loop over input_obj
Merge(input_obj) == MergeFrom([obj |-> input_obj, merged |-> <<>>, status |-> "ok"], 1)

----------------------------------------------------------------------------
(* The tables.  News is keyed by URN.  News_Associations rows have an     *)
(* automatic id and nothing in the source makes (NewsItem, AssociatedType,*)
(* AssociatedID) unique, so the table is a bag of triples: a save of a    *)
(* triple already stored either adds a row or raises (a raise is one of   *)
(* the failures every save can have).                                      *)

EmptyFcn == [x \in {} |-> 0]

Put(f, k, v) == [x \in DOMAIN f \cup {k} |-> IF x = k THEN v ELSE f[x]]

Drop(f, S) == [x \in DOMAIN f \ S |-> f[x]]

Count(b, t) == IF t \in DOMAIN b THEN b[t] ELSE 0

\* News_Associations(...).save(): one more row
AddRow(b, t) == Put(b, t, Count(b, t) + 1)

\* News_Associations.objects.get(pk=...).delete(): one row less
DelRow(b, t) ==
    IF Count(b, t) <= 1 THEN Drop(b, {t}) ELSE [b EXCEPT ![t] = @ - 1]

\* the delete of line 370 taking the News row alone
DelNewsOnly(st, URN) == [st EXCEPT !.news = Drop(@, {URN})]

\* News.objects.filter(URN=URN).delete(): the row and, through the foreign key
\* NewsItem, the association rows that reference it
DelNews(st, URN) ==
    [st EXCEPT !.news = Drop(@, {URN}),
               !.assoc = Drop(@, {t \in DOMAIN @ : t[1] = URN})]

\* the query of line 283 without its filter
SnapshotNewsAll(n) == DOMAIN n

\* News.objects.filter(URN__startswith=self.NEWSURNPREFIX)
SnapshotNews(n) == {u \in DOMAIN n : StartsWith(u, NEWSURNPREFIX)}

\* News_Associations.objects.filter(NewsItem__URN__startswith=...), keyed by str(item)
SnapshotAssoc(b) ==
    LET rows == {t \in DOMAIN b : StartsWith(t[1], NEWSURNPREFIX)}
        keys == {AssocKey(t[1], t[2], t[3]) : t \in rows}
    IN [K \in keys |-> CHOOSE t \in rows : AssocKey(t[1], t[2], t[3]) = K]

----------------------------------------------------------------------------
(* Field mapping of the upsert *)

\* django.utils.dateparse.parse_datetime on the timestamps of the feed
parse_datetime(s) ==
    CASE s = "2023-01-01" -> 20230101
      [] s = "2023-01-02" -> 20230102
      [] s = "2023-02-01" -> 20230201
      [] s = "2023-02-02" -> 20230202
      [] OTHER -> 0

NewsType(OutageType) ==
    IF OutageType = "Reconfiguration" THEN "Reconfiguration"
    ELSE IF OutageType = "Partial" THEN "Outage Partial"
    ELSE "Outage Full"

WEBURL(URN) ==
    <<"https://operations-api.access-ci.org/wh2/news/v1/id/">> \o URN \o <<"/?format=html">>

\* the defaults of News.objects.update_or_create
NewsRow(URN, p_res) ==
    [Subject |-> p_res["Subject"],
     Content |-> p_res["Content"],
     NewsStart |-> parse_datetime(p_res["OutageStart"]),
     NewsEnd |-> parse_datetime(p_res["OutageEnd"]),
     NewsType |-> NewsType(p_res["OutageType"]),
     DistributionOptions |-> None,
     WebURL |-> WEBURL(URN),
     Affiliation |-> AFFILIATION,
     Publisher |-> PUBLISHER]

----------------------------------------------------------------------------
(* Warehouse_XSEDE_News.  The pass is computed on a record st that holds  *)
(* the tables, self.new, self.new_assoc, the counters, the log of the     *)
(* committed operations and n, the number of persistence writes issued.   *)
(* fail says which persistence call of the pass raises DataError or       *)
(* IntegrityError:                                                         *)
(*   at = "none"                                                           *)
(*   at = "write",    k    : the k-th of update_or_create / save / save    *)
(*   at = "delassoc", done : an association delete, after those of done    *)
(*   at = "delnews",  done : a News delete, after those of done            *)
(* The delete loops run over dicts filled in the order the database gave  *)
(* the rows, which nothing fixes, so the deletes that precede a failing   *)
(* one are any proper subset of the deletes due.                           *)

NoFail == [at |-> "none", k |-> 0, done |-> {}]

\* what the handlers of lines 332-335 and 352-355 give: formatting msg reads
\* e.message, which the exceptions of django.db do not have, so AttributeError
\* leaves the handler in place of return(False, msg)
WriteErrorResult == "AttributeError"

\* what the handlers of lines 363-364 and 373-374 do: the same e.message
DeleteErrorResult == "AttributeError"

Raises(st, fail) == fail.at = "write" /\ st.n + 1 = fail.k

\* lines 314-335: update_or_create, save, self.new, STATS
UpsertNews(st, URN, p_res, fail) ==
    IF Raises(st, fail)
    THEN [st EXCEPT !.n = @ + 1, !.rc = WriteErrorResult]
    ELSE
      LET s1 == [st EXCEPT !.n = @ + 1,
                           !.news = Put(@, URN, NewsRow(URN, p_res)),
                           !.writes = Append(@, <<"upsert", URN>>)]
      IN IF Raises(s1, fail)
         THEN [s1 EXCEPT !.n = @ + 1, !.rc = WriteErrorResult]
         ELSE [s1 EXCEPT !.n = @ + 1,
                         !.new = @ \cup {URN},
                         !.Update = @ + 1]

\* the iteration of lines 338-355 with the save of an association counted as
\* an Update
AssocOneCounted(st, URN, resource, fail) ==
    LET assoc_type == "Resource"
        assoc_id == resource
        KEY == AssocKey(URN, assoc_type, assoc_id)
        row == <<URN, assoc_type, assoc_id>>
    IN IF KEY \in DOMAIN st.cur_assoc
       THEN [st EXCEPT !.new_assoc = Put(@, KEY, st.cur_assoc[KEY])]
       ELSE IF Raises(st, fail)
       THEN [st EXCEPT !.n = @ + 1, !.rc = WriteErrorResult]
       ELSE [st EXCEPT !.n = @ + 1,
                       !.assoc = AddRow(@, row),
                       !.new_assoc = Put(@, KEY, row),
                       !.Update = @ + 1,
                       !.writes = Append(@, <<"create", KEY>>)]

\* lines 338-355: one iteration of `for resource in p_res['AffectedInfrastructure']`
AssocOne(st, URN, resource, fail) ==
    LET assoc_type == "Resource"
        assoc_id == resource
        KEY == AssocKey(URN, assoc_type, assoc_id)
        row == <<URN, assoc_type, assoc_id>>
    IN IF KEY \in DOMAIN st.cur_assoc
       THEN [st EXCEPT !.new_assoc = Put(@, KEY, st.cur_assoc[KEY])]
       ELSE IF Raises(st, fail)
       THEN [st EXCEPT !.n = @ + 1, !.rc = WriteErrorResult]
       ELSE [st EXCEPT !.n = @ + 1,
                       !.assoc = AddRow(@, row),
                       !.new_assoc = Put(@, KEY, row),
                       !.writes = Append(@, <<"create", KEY>>)]

RECURSIVE AssocFrom(_, _, _, _, _)
AssocFrom(st, URN, resources, j, fail) ==
    IF j > Len(resources) \/ st.rc # "running" THEN st
    ELSE AssocFrom(AssocOne(st, URN, resources[j], fail), URN, resources, j + 1, fail)

\* lines 306-355: one iteration of `for (URN, p_res) in merged_obj.items()`
WriteOne(st, URN, p_res, fail) ==
    LET s1 == UpsertNews(st, URN, p_res, fail)
    IN IF s1.rc # "running" THEN s1
       ELSE AssocFrom(s1, URN, p_res["AffectedInfrastructure"], 1, fail)

RECURSIVE WriteFrom(_, _, _, _)
WriteFrom(st, obj, merged, i) ==
    IF i > Len(merged) \/ st.rc # "running" THEN st
    ELSE WriteFrom(WriteOne(st, merged[i][1], obj[merged[i][2]], st.fail), obj, merged, i + 1)

\* the loop of lines 358-364 without the test of line 359
DeleteAssocsAll(st) ==
    LET due == DOMAIN st.cur_assoc
        RECURSIVE Del(_, _)
        Del(b, S) == IF S = {} THEN b
                     ELSE LET K == CHOOSE K \in S : TRUE
                          IN Del(DelRow(b, st.cur_assoc[K]), S \ {K})
    IN [st EXCEPT !.assoc = Del(@, due), !.delAssoc = due]

\* lines 357-364: delete obsolete associations
DeleteAssocs(st) ==
    LET due == {K \in DOMAIN st.cur_assoc : K \notin DOMAIN st.new_assoc}
        fails == st.fail.at = "delassoc" /\ st.fail.done \subseteq due /\ st.fail.done # due
        todo == IF fails THEN st.fail.done ELSE due
        RECURSIVE Del(_, _)
        Del(b, S) == IF S = {} THEN b
                     ELSE LET K == CHOOSE K \in S : TRUE
                          IN Del(DelRow(b, st.cur_assoc[K]), S \ {K})
    IN [st EXCEPT !.assoc = Del(@, todo),
                  !.delAssoc = todo,
                  !.rc = IF fails /\ DeleteErrorResult # "continue"
                         THEN DeleteErrorResult ELSE @]

\* the pass without its loop of lines 366-374
DeleteNewsNone(st) == st

\* lines 366-374: delete obsolete news items
DeleteNews(st) ==
    LET due == {URN \in st.cur : URN \notin st.new}
        fails == st.fail.at = "delnews" /\ st.fail.done \subseteq due /\ st.fail.done # due
        todo == IF fails THEN st.fail.done ELSE due
        RECURSIVE Del(_, _)
        Del(s, S) == IF S = {} THEN s
                     ELSE LET URN == CHOOSE URN \in S : TRUE
                          IN Del(DelNews(s, URN), S \ {URN})
    IN [Del(st, todo) EXCEPT !.delNews = todo,
                             !.Delete = @ + Cardinality(todo),
                             !.rc = IF fails /\ DeleteErrorResult # "continue"
                                    THEN DeleteErrorResult ELSE @]

\* the pass run in a transaction that a failed upsert or create rolls back
WarehouseAtomic(n, b, input_obj, fail) ==
    LET m == Merge(input_obj)
        st0 == [news |-> n, assoc |-> b,
                cur |-> SnapshotNews(n), cur_assoc |-> SnapshotAssoc(b),
                new |-> {}, new_assoc |-> EmptyFcn,
                obj |-> m.obj, merged |-> m.merged,
                Update |-> 0, Delete |-> 0,
                writes |-> <<>>, delAssoc |-> {}, delNews |-> {},
                n |-> 0, fail |-> fail,
                rc |-> IF m.status = "ok" THEN "running" ELSE m.status]
        s1 == WriteFrom(st0, m.obj, m.merged, 1)
        s2 == IF s1.rc = "running" THEN DeleteAssocs(s1)
              ELSE [s1 EXCEPT !.news = n, !.assoc = b]
        s3 == IF s2.rc = "running" THEN DeleteNews(s2) ELSE s2
    IN [s3 EXCEPT !.rc = IF @ = "running" THEN "True" ELSE @]

\* lines 280-375, on the tables n and b
Warehouse_XSEDE_News(n, b, input_obj, fail) ==
    LET m == Merge(input_obj)
        st0 == [news |-> n, assoc |-> b,
                cur |-> SnapshotNews(n), cur_assoc |-> SnapshotAssoc(b),
                new |-> {}, new_assoc |-> EmptyFcn,
                obj |-> m.obj, merged |-> m.merged,
                Update |-> 0, Delete |-> 0,
                writes |-> <<>>, delAssoc |-> {}, delNews |-> {},
                n |-> 0, fail |-> fail,
                rc |-> IF m.status = "ok" THEN "running" ELSE m.status]
        s1 == WriteFrom(st0, m.obj, m.merged, 1)
        s2 == IF s1.rc = "running" THEN DeleteAssocs(s1) ELSE s1
        s3 == IF s2.rc = "running" THEN DeleteNews(s2) ELSE s2
    IN [s3 EXCEPT !.rc = IF @ = "running" THEN "True" ELSE @]

----------------------------------------------------------------------------
(* Run and __main__ *)

peak_sleep == 10 * 60
offpeak_sleep == 60 * 60

\* self.STATS = Counter(): every counter reads 0
Counter == [Update |-> 0, Delete |-> 0, Skip |-> 0]

NoOps == [writes |-> <<>>, delAssoc |-> {}, delNews |-> {}]

\* rows of another publisher's namespace and a row of this namespace that no
\* record of the feed names
ForeignURN == <<"o", ":", "A">>
\* a URN of another namespace that begins as the prefix does
NearURN == <<"n", "A">>
OldURN == NEWSURNPREFIX \o <<"old">>
OtherRow ==
    [Subject |-> "other", Content |-> "other", NewsStart |-> 0, NewsEnd |-> 0,
     NewsType |-> "Outage Full", DistributionOptions |-> None,
     WebURL |-> <<"other">>, Affiliation |-> "other", Publisher |-> "other"]

InitNews == Put(Put(Put(EmptyFcn, ForeignURN, OtherRow), OldURN, OtherRow), NearURN, OtherRow)
InitAssoc ==
    Put(Put(Put(EmptyFcn, <<ForeignURN, "Resource", <<"r1">>>>, 1),
            <<OldURN, "Resource", <<"r1">>>>, 1),
        <<NearURN, "Resource", <<"r1">>>>, 1)

\* the failures that can happen in the pass whose failure-free run is r0
Fails(r0) ==
    {NoFail}
    \cup { [at |-> "write", k |-> k, done |-> {}] : k \in 1..r0.n }
    \cup { [at |-> "delassoc", k |-> 0, done |-> D] : D \in SUBSET r0.delAssoc \ {r0.delAssoc} }
    \cup { [at |-> "delnews", k |-> 0, done |-> D] : D \in SUBSET r0.delNews \ {r0.delNews} }

InitCommon ==
    /\ news = InitNews /\ assoc = InitAssoc
    /\ news0 = news /\ assoc0 = assoc
    /\ cur = {} /\ cur_assoc = EmptyFcn /\ new = {} /\ new_assoc = EmptyFcn
    /\ merged_obj = <<>>
    /\ STATS = Counter
    /\ rc = "none" /\ ops = NoOps /\ failed = "none"
    /\ current_sleep = 0 /\ hour = 0

Init ==
    /\ InitCommon
    /\ SOURCE_DATA = NoData /\ fetched = NoData
    /\ daemonaction \in {None, "start"}
    /\ pc = "run"

\* Run with `break` taken in daemon mode too
AfterCycleBreak(result) ==
    IF result \notin {"none", "True", "False"} THEN "exited" ELSE "done"

\* lines 415-417 after a cycle, and lines 427-431 when the cycle raised
AfterCycle(result) ==
    IF result \notin {"none", "True", "False"} THEN "exited"
    ELSE IF daemonaction = None THEN "done"
    ELSE "sleep"

\* one iteration of `while True` in which `if SOURCE_DATA:` is taken
RunWarehouse ==
    /\ pc = "run"
    /\ \E l \in Feeds :
         /\ Truthy(Data(l))
         /\ \E r0 \in {Warehouse_XSEDE_News(news, assoc, l, NoFail)} :
            \E fail \in Fails(r0) :
            \E r \in {Warehouse_XSEDE_News(news, assoc, l, fail)} :
               /\ news' = r.news /\ assoc' = r.assoc
               /\ cur' = r.cur /\ cur_assoc' = r.cur_assoc
               /\ new' = r.new /\ new_assoc' = r.new_assoc
               /\ SOURCE_DATA' = Data(r.obj) /\ merged_obj' = r.merged
               /\ STATS' = [Update |-> Counter.Update + r.Update,
                            Delete |-> Counter.Delete + r.Delete,
                            Skip |-> Counter.Skip]
               /\ rc' = r.rc
               /\ ops' = [writes |-> r.writes, delAssoc |-> r.delAssoc, delNews |-> r.delNews]
               /\ failed' = fail.at
               /\ pc' = AfterCycle(r.rc)
         /\ fetched' = Data(l)
    /\ news0' = news /\ assoc0' = assoc
    /\ current_sleep' = 0
    /\ UNCHANGED <<daemonaction, hour>>

\* one iteration of `while True` in which `if SOURCE_DATA:` is not taken
RunNoData ==
    /\ pc = "run"
    /\ \E d \in {NoData, Data(<<>>)} :
         /\ ~Truthy(d)
         /\ SOURCE_DATA' = d /\ fetched' = d
    /\ STATS' = Counter
    /\ rc' = "none" /\ ops' = NoOps /\ failed' = "none"
    /\ news0' = news /\ assoc0' = assoc
    /\ pc' = AfterCycle("none")
    /\ current_sleep' = 0
    /\ UNCHANGED <<news, assoc, cur, cur_assoc, new, new_assoc, merged_obj, daemonaction, hour>>

\* What a cycle leaves in self.cur, self.cur_assoc, self.new, self.new_assoc,
\* self.STATS and in the locals of Run is not read by the cycle after it: lines
\* 281-287 and 385-391 assign all of them first.  The model keeps these values
\* while the cycle's outcome is observable (until Run loops or the program is
\* started again) and lets go of them then.
Forget ==
    /\ cur' = {} /\ cur_assoc' = EmptyFcn /\ new' = {} /\ new_assoc' = EmptyFcn
    /\ SOURCE_DATA' = NoData /\ fetched' = NoData /\ merged_obj' = <<>>
    /\ STATS' = Counter
    /\ rc' = "none" /\ ops' = NoOps /\ failed' = "none"
    /\ news0' = news /\ assoc0' = assoc

\* the hours datetime.now(Central_TZ).hour can give
Hours == 0..23

\* line 379 with both comparisons strict
SleepLengthStrict(h) == IF 6 < h /\ h < 21 THEN peak_sleep ELSE offpeak_sleep

\* the sleep length smart_sleep computes at the given hour of US/Central
SleepLength(h) == IF 6 <= h /\ h <= 21 THEN peak_sleep ELSE offpeak_sleep

\* smart_sleep up to its call of sleep()
Sleep ==
    /\ pc = "sleep"
    /\ hour' \in Hours
    /\ current_sleep' = SleepLength(hour')
    /\ pc' = "sleeping"
    /\ Forget
    /\ UNCHANGED <<news, assoc, daemonaction>>

\* sleep() returns, and Run is back at the top of `while True`
Wake ==
    /\ pc = "sleeping"
    /\ pc' = "run"
    /\ current_sleep' = 0 /\ hour' = 0
    /\ UNCHANGED <<news, assoc, cur, cur_assoc, new, new_assoc, SOURCE_DATA, fetched,
                   merged_obj, STATS, rc, ops, failed, news0, assoc0, daemonaction>>

\* the program is started again on the same database
Restart ==
    /\ pc \in {"done", "exited"}
    /\ daemonaction' \in {None, "start"}
    /\ pc' = "run"
    /\ Forget
    /\ current_sleep' = 0
    /\ UNCHANGED <<news, assoc, hour>>

Next == RunWarehouse \/ RunNoData \/ Sleep \/ Wake \/ Restart

Spec == Init /\ [][Next]_vars

\* smart_sleep is called as soon as a daemon cycle ends (line 417) and sleep()
\* returns when its time is over
FairSpec == Spec /\ WF_vars(Sleep) /\ WF_vars(Wake)

----------------------------------------------------------------------------
(* The merge loop alone, on every batch of at most MaxBatch records *)

InitMerge ==
    /\ InitCommon
    /\ \E l \in SeqsUpTo(Records, MaxBatch) : fetched = Data(l)
    /\ SOURCE_DATA = fetched
    /\ daemonaction = None
    /\ pc = "merge"

\* lines 293-304 on SOURCE_DATA
MergeStep ==
    /\ pc = "merge"
    /\ LET m == Merge(SOURCE_DATA.list)
       IN /\ SOURCE_DATA' = Data(m.obj)
          /\ merged_obj' = m.merged
          /\ rc' = IF m.status = "ok" THEN "none" ELSE m.status
    /\ pc' = "merged"
    /\ UNCHANGED <<news, assoc, cur, cur_assoc, new, new_assoc, fetched, STATS, ops,
                   failed, news0, assoc0, daemonaction, current_sleep, hour>>

NextMerge == MergeStep

SpecMerge == InitMerge /\ [][NextMerge]_vars

----------------------------------------------------------------------------
(* What the claims say about the merge loop, stated on the batch as it was *)
(* fetched                                                                 *)

\* the positions of the records whose ID starts with the input prefix
Legacy(l) == {i \in 1..Len(l) : StartsWith(l[i]["ID"], INPUTURNPREFIX)}

URNOf(rec) == NEWSURNPREFIX \o rec["OutageID"]

\* the positions of the legacy records of the outage with this URN
GroupOf(l, URN) == {i \in Legacy(l) : URNOf(l[i]) = URN}

Min(S) == CHOOSE x \in S : \A y \in S : x <= y

\* the ResourceIDs of the legacy records of the outage, in batch order
RECURSIVE ResourcesOf(_, _, _)
ResourcesOf(l, URN, i) ==
    IF i > Len(l) THEN <<>>
    ELSE IF i \in GroupOf(l, URN) THEN <<l[i]["ResourceID"]>> \o ResourcesOf(l, URN, i + 1)
    ELSE ResourcesOf(l, URN, i + 1)

\* the merged outage at position k of merged_obj
MergedRec(k) == SOURCE_DATA.list[merged_obj[k][2]]

ScalarFields == {"OutageType", "Subject", "Content", "OutageStart", "OutageEnd"}

\* C8: the merge gives exactly one merged outage per distinct OutageID of the
\* legacy records, every merged outage is a legacy record's, and a record of
\* another namespace adds no resource to any merged outage
MergeGrouping ==
    pc = "merged" =>
      LET l == fetched.list
          oids == {l[i]["OutageID"] : i \in Legacy(l)}
      IN /\ Len(merged_obj) = Cardinality(oids)
         /\ \A oid \in oids :
              Cardinality({k \in 1..Len(merged_obj) : merged_obj[k][1] = NEWSURNPREFIX \o oid}) = 1
         /\ \A k \in 1..Len(merged_obj) :
              /\ merged_obj[k][2] \in Legacy(l)
              /\ Len(MergedRec(k)["AffectedInfrastructure"])
                   = Cardinality(GroupOf(l, merged_obj[k][1]))

\* a batch with two outages and a record of another namespace was merged
MergeGroupingWitness ==
    /\ pc = "merged"
    /\ Len(merged_obj) = 2
    /\ Cardinality(Legacy(fetched.list)) < Len(fetched.list)

\* C9: the scalar fields of a merged outage are those of the first legacy
\* record of its OutageID in batch order
FirstSeenWins ==
    pc = "merged" =>
      \A k \in 1..Len(merged_obj) :
        LET l == fetched.list
            first == Min(GroupOf(l, merged_obj[k][1]))
        IN \A f \in ScalarFields : MergedRec(k)[f] = l[first][f]

\* a group whose second record has another Subject than its first was merged
FirstSeenWinsWitness ==
    /\ pc = "merged"
    /\ \E k \in 1..Len(merged_obj) :
         LET g == GroupOf(fetched.list, merged_obj[k][1])
         IN \E i \in g : i # Min(g) /\ fetched.list[i]["Subject"] # fetched.list[Min(g)]["Subject"]

\* C10: AffectedInfrastructure of a merged outage is the sequence of the
\* ResourceIDs of the legacy records of its OutageID, in batch order, with
\* duplicates kept
ResourceAccumulation ==
    pc = "merged" =>
      \A k \in 1..Len(merged_obj) :
        /\ MergedRec(k)["AffectedInfrastructure"] = ResourcesOf(fetched.list, merged_obj[k][1], 1)
        /\ Len(MergedRec(k)["AffectedInfrastructure"])
             = Cardinality(GroupOf(fetched.list, merged_obj[k][1]))

\* a group in which one ResourceID occurs twice, around another one, was merged
ResourceAccumulationWitness ==
    /\ pc = "merged"
    /\ \E k \in 1..Len(merged_obj) :
         LET a == MergedRec(k)["AffectedInfrastructure"]
         IN Len(a) = 3 /\ a[1] = a[3] /\ a[1] # a[2]

----------------------------------------------------------------------------
(* What the claims say about a cycle of Run, stated on the tables before   *)
(* and after it and on the batch as it was fetched                         *)

\* a cycle has ended and its outcome is observable
CycleEnded == pc \in {"sleep", "done", "exited"}

\* the cycle that ended ran Warehouse_XSEDE_News
PassRan == CycleEnded /\ Truthy(fetched)

InNamespace(URN) == StartsWith(URN, NEWSURNPREFIX)

NsURNs(n) == {u \in DOMAIN n : InNamespace(u)}

NsRows(b) == {t \in DOMAIN b : InNamespace(t[1])}

NsKeys(b) == {AssocKey(t[1], t[2], t[3]) : t \in NsRows(b)}

\* the URNs and the association keys of the merged batch
MergedURNs(l) == {URNOf(l[i]) : i \in Legacy(l)}

MergedKeys(l) == {AssocKey(URNOf(l[i]), "Resource", l[i]["ResourceID"]) : i \in Legacy(l)}

\* the row an upsert of the merged outage with this URN writes
ExpectedRow(l, URN) == NewsRow(URN, l[Min(GroupOf(l, URN))])

Upserted == {ops.writes[j][2] : j \in {j \in 1..Len(ops.writes) : ops.writes[j][1] = "upsert"}}

Created(K) == Cardinality({j \in 1..Len(ops.writes) : ops.writes[j] = <<"create", K>>})

\* C1: after a pass in which no persistence operation failed, the URNs of the
\* namespace in the News table are those of the merged batch and the keys of
\* the associations of the namespace are its (URN, ResourceID) pairs
Convergence ==
    (PassRan /\ failed = "none") =>
      /\ rc = "True"
      /\ NsURNs(news) = MergedURNs(fetched.list)
      /\ NsKeys(assoc) = MergedKeys(fetched.list)

\* C2: there is at most one association row per (URN, type, id)
AssociationUnique == \A t \in DOMAIN assoc : assoc[t] <= 1

EmptyBatchDeletesAll ==
    (CycleEnded /\ fetched = Data(<<>>)) =>
      /\ pc # "exited"
      /\ NsURNs(news) = {}
      /\ NsRows(assoc) = {}
      /\ STATS.Delete = Cardinality(NsURNs(news0))

\* C5: the pass run again on the same batch, on the tables a failure-free pass
\* left, changes no row, creates no association, deletes nothing and counts
\* one Update per entity
UpsertIdempotence ==
    (PassRan /\ failed = "none") =>
      LET again == Warehouse_XSEDE_News(news, assoc, fetched.list, NoFail)
      IN /\ again.rc = "True"
         /\ again.news = news /\ again.assoc = assoc
         /\ \A j \in 1..Len(again.writes) : again.writes[j][1] # "create"
         /\ again.delAssoc = {} /\ again.delNews = {}
         /\ again.Update = Cardinality(MergedURNs(fetched.list))
         /\ again.Delete = 0

\* C6 as stated: a pass that a failed upsert or create ended left the tables
\* as they were when it started
AllOrNothing ==
    (PassRan /\ failed = "write") => (news = news0 /\ assoc = assoc0)

\* C6 as amended: a pass that a failed upsert or create ended deleted nothing
\* and left the tables as they were when it started with the upserts and
\* creates it had committed before the failure applied
WritesStay ==
    (PassRan /\ failed = "write") =>
      /\ ops.delAssoc = {} /\ ops.delNews = {}
      /\ DOMAIN news = DOMAIN news0 \cup Upserted
      /\ \A u \in DOMAIN news :
           news[u] = IF u \in Upserted THEN ExpectedRow(fetched.list, u) ELSE news0[u]
      /\ \A t \in DOMAIN assoc \cup DOMAIN assoc0 :
           Count(assoc, t) = Count(assoc0, t) + Created(AssocKey(t[1], t[2], t[3]))

\* a pass failed after it had committed an upsert and a create
WritesStayWitness ==
    /\ PassRan /\ failed = "write"
    /\ Upserted # {}
    /\ \E j \in 1..Len(ops.writes) : ops.writes[j][1] = "create"
    /\ news # news0 /\ assoc # assoc0

\* C7: in daemon mode a pass in which an upsert or create raised returns
\* failure and Run goes on to sleep
WriteErrorKeepsDaemon ==
    (PassRan /\ failed = "write" /\ daemonaction = "start") =>
      (rc = "False" /\ pc = "sleep")

\* C11: a cycle whose fetch gave None runs no reconcile step and leaves the
\* tables as they were; in daemon mode Run goes on to sleep, and from the
\* sleep it comes back to the top of the loop, where it fetches
NoDataCycle ==
    /\ []((CycleEnded /\ fetched = NoData) =>
            /\ rc = "none" /\ ops = NoOps /\ merged_obj = <<>>
            /\ news = news0 /\ assoc = assoc0
            /\ STATS = [Update |-> 0, Delete |-> 0, Skip |-> 0]
            /\ (daemonaction = "start" => pc = "sleep"))
    /\ ((pc = "sleep" /\ fetched = NoData) ~> (pc = "run"))

\* a daemon cycle without data ended on tables that earlier passes had changed
NoDataCycleWitness ==
    /\ pc = "sleep" /\ fetched = NoData /\ daemonaction = "start"
    /\ news # InitNews /\ assoc # InitAssoc

\* C12: in single-shot mode the one cycle of Run ends in the return of Run,
\* whatever the fetch gave and whatever the pass did
SingleShotReturns ==
    (CycleEnded /\ daemonaction = None) => pc = "done"

\* the pass of the cycle that ended, had no persistence call of it failed
FailureFree == Warehouse_XSEDE_News(news0, assoc0, fetched.list, NoFail)

\* C13: a pass in which an upsert or create failed returns (False, msg) and
\* did nothing after the failing call: its upserts and creates are the first
\* of those due and it deleted no association and no entity
ImmediateAbort ==
    (PassRan /\ failed = "write") =>
      /\ rc = "False"
      /\ ops.delAssoc = {} /\ ops.delNews = {}
      /\ Len(ops.writes) <= Len(FailureFree.writes)
      /\ SubSeq(FailureFree.writes, 1, Len(ops.writes)) = ops.writes

\* C14: a pass in which the delete of an obsolete association or entity failed
\* still did every other delete that was due and returns (True, '')
DeletionFailuresNonFatal ==
    (PassRan /\ failed \in {"delassoc", "delnews"}) =>
      /\ rc = "True"
      /\ Cardinality(FailureFree.delAssoc \ ops.delAssoc) <= (IF failed = "delassoc" THEN 1 ELSE 0)
      /\ Cardinality(FailureFree.delNews \ ops.delNews) <= (IF failed = "delnews" THEN 1 ELSE 0)

\* C15: on the tables a failed pass left, the pass run without a failure on
\* any batch leaves, under the namespace, the entities and the associations
\* of that batch's merge and nothing else
SelfHealing ==
    (PassRan /\ failed # "none") =>
      \A l \in Feeds :
        LET next == Warehouse_XSEDE_News(news, assoc, l, NoFail)
        IN /\ next.rc = "True"
           /\ NsURNs(next.news) = MergedURNs(l)
           /\ NsKeys(next.assoc) = MergedKeys(l)

\* C16: an association of the merged batch whose key is in the snapshot is
\* not created again, not deleted, its entity is not deleted, and the table
\* holds after the pass the rows it held for it before
ExistingAssocPreserved ==
    PassRan =>
      \A i \in Legacy(fetched.list) :
        LET URN == URNOf(fetched.list[i])
            row == <<URN, "Resource", fetched.list[i]["ResourceID"]>>
            KEY == AssocKey(row[1], row[2], row[3])
        IN KEY \in NsKeys(assoc0) =>
             /\ Created(KEY) = 0
             /\ KEY \notin ops.delAssoc
             /\ URN \notin ops.delNews
             /\ Count(assoc, row) = Count(assoc0, row)
             /\ Count(assoc, row) >= 1

\* a pass kept an association that was there, created another and deleted a third
ExistingAssocPreservedWitness ==
    /\ PassRan /\ rc = "True"
    /\ \E i \in Legacy(fetched.list) :
         AssocKey(URNOf(fetched.list[i]), "Resource", fetched.list[i]["ResourceID"])
            \in NsKeys(assoc0)
    /\ \E j \in 1..Len(ops.writes) : ops.writes[j][1] = "create"
    /\ ops.delAssoc # {}

\* C17: the merge loop leaves the batch it was given as it was, and the loop
\* run again on that batch object gives the same merged outages
MergePure ==
    pc = "merged" =>
      LET again == Merge(SOURCE_DATA.list)
      IN /\ SOURCE_DATA = fetched
         /\ again.status = "ok"
         /\ again.merged = merged_obj
         /\ \A k \in 1..Len(merged_obj) : again.obj[again.merged[k][2]] = MergedRec(k)

SleepDuration ==
    pc = "sleeping" =>
      /\ hour \in 6..21 => current_sleep = peak_sleep
      /\ hour \in (0..5) \cup (22..23) => current_sleep = offpeak_sleep
      /\ hour \in 0..23
      /\ peak_sleep = 600 /\ offpeak_sleep = 3600

\* the daemon sleeps the peak interval at 21 h, after cycles that changed the tables
SleepDurationWitness ==
    /\ pc = "sleeping" /\ hour = 21 /\ current_sleep = peak_sleep
    /\ news # InitNews

\* the rows of the other namespaces
ForeignNews(n) == [u \in DOMAIN n \ NsURNs(n) |-> n[u]]

ForeignAssoc(b) == [t \in DOMAIN b \ NsRows(b) |-> b[t]]

\* C20: whatever the batch and the failures, a pass upserts and deletes only
\* entities whose URN starts with NEWSURNPREFIX, creates and deletes only
\* associations of such entities, and the rows of the other namespaces are
\* after the pass what they were before it
NamespaceIsolation ==
    /\ ForeignNews(news) = ForeignNews(news0)
    /\ ForeignAssoc(assoc) = ForeignAssoc(assoc0)
    /\ \A u \in Upserted \cup ops.delNews : InNamespace(u)
    /\ \A K \in ops.delAssoc : StartsWith(K, NEWSURNPREFIX)
    /\ \A j \in 1..Len(ops.writes) : StartsWith(ops.writes[j][2], NEWSURNPREFIX)

\* a pass upserted, created and deleted rows of the namespace next to rows of
\* other namespaces, and was then ended by a failure
NamespaceIsolationWitness ==
    /\ PassRan /\ failed = "delnews"
    /\ Upserted # {} /\ ops.delAssoc # {} /\ ops.delNews # {}
    /\ \E j \in 1..Len(ops.writes) : ops.writes[j][1] = "create"
    /\ Cardinality(DOMAIN ForeignNews(news)) = 2
    /\ Cardinality(DOMAIN ForeignAssoc(assoc)) = 2

\* every association row of the namespace references an entity of the table
NoDangling(n, b) == \A t \in NsRows(b) : t[1] \in DOMAIN n

====
